---- MODULE Spec2Model ----
(***************************************************************************)
(* Model of analysis/views.py: the step extractor (parse_ginkgo_steps),    *)
(* the run store (DataContextService), the classifier (ClassifierEngine),  *)
(* the rule engine (DecisionEngine), the action executor (ActionExecutor)  *)
(* and the batch driver (run_full_simulation).                             *)
(*                                                                         *)
(* Text.  A Python str is modelled as a sequence of tokens.  A token is a  *)
(* piece of text that the program's string tests cannot split: the tests   *)
(* of the program (substring tests, startswith, str.replace, str.strip,    *)
(* str.split and the regular expressions) are evaluated token by token.    *)
(* The token "\n" is the line break, " " is a blank and "STEP:" is the     *)
(* step marker without its blank, so that "STEP: " is the two tokens       *)
(* "STEP:", " ".  str.lower acts on each token (LowerOf); the phrases that *)
(* occur strictly inside a token are listed by Inner.                      *)
(*                                                                         *)
(* Numbers.  A confidence is kept in hundredths (0.99 is 99).              *)
(*                                                                         *)
(* flow_log, an append-only list of display messages that no decision      *)
(* reads, and the TestResult fields that the pipeline never reads (suite,  *)
(* build_id, environment, oadp_version, repository, env_platform, tags,    *)
(* rerun_count) are left out.                                              *)
(***************************************************************************)
EXTENDS Integers, Sequences, FiniteSets, TLC

VARIABLES
    db,                 \* SIMULATION_DB: test_run_id -> TestResult
    pc,                 \* position of the request being served
    cur,                \* the TestResult object in hand (`test` / `test_result`)
    classifications,    \* local `classifications` of process_test_result
    action_commands,    \* local `action_commands`
    action_results,     \* local `action_results` built by the executor loop
    raised,             \* an exception escaped the request
    ret,                \* value returned by the last store / classifier call from outside
    issued,             \* the uuid4 values drawn so far for TestResult.test_run_id
    tests,              \* local `tests`: the ids of the batch's runs the loop has taken
    parked              \* the locals of the request that is not running

vars == <<db, pc, cur, classifications, action_commands, action_results, raised, ret,
          issued, tests, parked>>

----------------------------------------------------------------------------
(* Bounds of the model.                                                    *)

\* tokens in a log handed to the step extractor alone (SpecSteps)
MaxLogLen == 5
\* lines in a log submitted to the pipeline (Spec)
MaxLines == 2

----------------------------------------------------------------------------
(* Text                                                                    *)

NL == "\n"
SP == " "
STEP == "STEP:"

\* str.lower(), token by token.  Tokens not listed have no upper-case letter.
LowerOf(t) ==
    CASE t = "STEP:" -> "step:"
      [] t = "Verify backup integrity" -> "verify backup integrity"
      [] t = "Setting up environment" -> "setting up environment"
      [] t = "Cleaning up resources" -> "cleaning up resources"
      [] t = "ERROR" -> "error"
      [] t = "FAIL" -> "fail"
      [] t = "FATAL" -> "fatal"
      [] t = "Connection timed out" -> "connection timed out"
      [] t = "CONNECTION TIMED OUT" -> "connection timed out"
      [] t = "Test skipped due to unstable environment" -> "test skipped due to unstable environment"
      [] t = "Skipping test, feature flag is disabled" -> "skipping test, feature flag is disabled"
      [] t = "SKIPPING TEST, FEATURE FLAG IS DISABLED" -> "skipping test, feature flag is disabled"
      [] t = "NullPointerException" -> "nullpointerexception"
      [] t = "Permission Denied" -> "permission denied"
      [] t = "Ansible-Playbook Error" -> "ansible-playbook error"
      [] t = "Adding item to cart" -> "adding item to cart"
      [] OTHER -> t

\* The phrases looked for (in any letter case) that occur strictly inside a token.
Inner(t) ==
    CASE t = "error restoring snapshot oadp-2345" -> {"error"}
      [] t = "automation framework panicked" -> {"panic"}
      [] t = "ansible-playbook error" -> {"error"}
      [] t = "mysql validation failed" -> {"fail"}
      [] t = "mysql cleanup failed" -> {"fail"}
      [] t = "ocp-mysql deploy failed" -> {"fail"}
      [] t = "test_mysql_backup_and_verify" -> {"test_mysql_backup"}
      [] OTHER -> {}

\* `phrase in text`
Contains(phrase, text) ==
    \E i \in 1..Len(text) : phrase = text[i] \/ phrase \in Inner(text[i])

\* text.lower()
Lower(text) == [i \in 1..Len(text) |-> LowerOf(text[i])]

\* any(phrase in text for phrase in phrases)
ContainsAny(phrases, text) == \E p \in phrases : Contains(p, text)

\* text.split('\n'): the lines of a text, never fewer than one
RECURSIVE split_lines(_)
split_lines(text) ==
    IF \A i \in 1..Len(text) : text[i] # NL
    THEN <<text>>
    ELSE LET k == CHOOSE i \in 1..Len(text) :
                      text[i] = NL /\ \A j \in 1..(i-1) : text[j] # NL
         IN  <<SubSeq(text, 1, k-1)>> \o split_lines(SubSeq(text, k+1, Len(text)))

\* text.replace("STEP: ", ""): every occurrence, left to right
RECURSIVE replace_step(_)
replace_step(text) ==
    IF Len(text) = 0 THEN <<>>
    ELSE IF Len(text) >= 2 /\ text[1] = STEP /\ text[2] = SP
         THEN replace_step(SubSeq(text, 3, Len(text)))
         ELSE <<text[1]>> \o replace_step(Tail(text))

\* text.strip(): leading and trailing blanks removed
RECURSIVE strip(_)
strip(text) ==
    IF Len(text) = 0 THEN <<>>
    ELSE IF text[1] = SP THEN strip(Tail(text))
    ELSE IF text[Len(text)] = SP THEN strip(SubSeq(text, 1, Len(text) - 1))
    ELSE text

----------------------------------------------------------------------------
(* Step extractor                                                          *)

ignore_list == {"setting up environment", "cleaning up resources", "starting test"}

failure_keywords == {"FAIL", "panic", "error", "fatal"}

NoFailedStep == <<"Log analysis did not find a failed step">>

\* faulty variant: the step text is tested as written, without .lower()
NotIgnored_case_sensitive(s) == ~ ContainsAny(ignore_list, s)

\* not any(ignore_phrase in s.lower() for ignore_phrase in ignore_list)
NotIgnored(s) == ~ ContainsAny(ignore_list, Lower(s))

\* re.findall(r"STEP: (.*)", logs): "." stops at a line break, so each line
\* gives at most one match, from its first "STEP: " to its end.
find_all_steps(logs) ==
    LET lines == split_lines(logs)
        Marks(l) == {i \in 1..(Len(l) - 1) : l[i] = STEP /\ l[i+1] = SP}
        First(l) == CHOOSE i \in Marks(l) : \A j \in Marks(l) : i <= j
        Capture(l) == SubSeq(l, First(l) + 2, Len(l))
        F[n \in 0..Len(lines)] ==
            IF n = 0 THEN <<>>
            ELSE IF Marks(lines[n]) = {} THEN F[n-1]
                 ELSE Append(F[n-1], Capture(lines[n]))
    IN  F[Len(lines)]

\* the for loop over log_lines, started with last_step = initial: the candidate
\* after the scan stopped
scan_lines(logs, initial) ==
    LET lines == split_lines(logs)
        Stops(l) == ContainsAny(failure_keywords, Lower(l))
        \* the line at which the scan breaks, or the last line
        last == IF \E i \in 1..Len(lines) : Stops(lines[i])
                THEN CHOOSE i \in 1..Len(lines) :
                         Stops(lines[i]) /\ \A j \in 1..(i-1) : ~ Stops(lines[j])
                ELSE Len(lines)
        step_text(l) == strip(replace_step(l))
        C[n \in 0..last] ==
            IF n = 0 THEN initial
            ELSE IF lines[n] # <<>> /\ lines[n][1] = STEP /\ NotIgnored(step_text(lines[n]))
                 THEN step_text(lines[n])
                 ELSE C[n-1]
    IN  C[last]

\* faulty variant: last_step starts as the empty string, not as the sentinel
failed_step_scan_from_empty(logs) == scan_lines(logs, <<>>)

\* last_step = "Log analysis did not find a failed step", then the for loop
failed_step_scan(logs) == scan_lines(logs, NoFailedStep)

parse_ginkgo_steps(logs) ==
    [steps |-> SelectSeq(find_all_steps(logs), NotIgnored),
     failed_step |-> failed_step_scan(logs)]

----------------------------------------------------------------------------
(* Dictionaries: a Python dict is the sequence of its <<key, value>> pairs  *)
(* in insertion order.                                                     *)

EmptyDict == <<>>

dict_has(d, k) == \E i \in 1..Len(d) : d[i][1] = k

dict_get(d, k) == d[CHOOSE i \in 1..Len(d) : d[i][1] = k][2]

\* d[k] = v: an existing key keeps its place
dict_set(d, k, v) ==
    IF dict_has(d, k)
    THEN [i \in 1..Len(d) |-> IF d[i][1] = k THEN <<k, v>> ELSE d[i]]
    ELSE Append(d, <<k, v>>)

\* d.update(other)
RECURSIVE dict_update(_, _)
dict_update(d, other) ==
    IF Len(other) = 0 THEN d
    ELSE dict_update(dict_set(d, other[1][1], other[1][2]), Tail(other))

\* list({key(x): x for x in s}.values()), keys[i] being key(s[i]): one entry
\* per key, at the place of the key's first occurrence, holding the key's last
\* occurrence
DedupByKey(s, keys) ==
    LET FirstAt(i) == \A j \in 1..(i-1) : keys[j] # keys[i]
        LastOf(i) == CHOOSE j \in 1..Len(s) :
                        /\ keys[j] = keys[i]
                        /\ \A m \in (j+1)..Len(s) : keys[m] # keys[i]
        F[n \in 0..Len(s)] ==
            IF n = 0 THEN <<>>
            ELSE IF FirstAt(n) THEN Append(F[n-1], s[LastOf(n)]) ELSE F[n-1]
    IN  F[Len(s)]

----------------------------------------------------------------------------
(* Classifier                                                              *)

SKIP == "skip"
NEW_SKIP == "new-skip"
NEEDS_MANUAL_REVIEW == "Needs Manual Review"

SkipFamily == {SKIP, NEW_SKIP}

ClassificationResult(id, type, conf, details) ==
    [classifier_id |-> id, classification_type |-> type,
     confidence |-> conf, details |-> details]

\* faulty variant: the known-bug entry is written without its ticket
patterns_missing_ticket == <<
    [pattern |-> "Connection timed out",
     result |-> ClassificationResult("REGEX_TIMEOUT", "Known Flake", 99, <<<<"ticket", "PROJ-123">>>>)],
    [pattern |-> "database migration setup",
     result |-> ClassificationResult("REGEX_DB_MIGRATE", "Setup Failure", 95, EmptyDict)],
    [pattern |-> "mysql validation failed",
     result |-> ClassificationResult("REGEX_MYSQL_VALIDATE", "ocp-mysql-validation-failure", 96, EmptyDict)],
    [pattern |-> "mysql cleanup failed",
     result |-> ClassificationResult("REGEX_MYSQL_CLEANUP", "ocp-mysql-cleanup-failure", 96, EmptyDict)],
    [pattern |-> "ocp-mysql deploy failed",
     result |-> ClassificationResult("REGEX_MYSQL_DEPLOY", "ocp-mysql-deploy-failure", 97, EmptyDict)],
    [pattern |-> "backup completed with warnings",
     result |-> ClassificationResult("REGEX_BACKUP_PARTIAL", "backup-partially-failed", 90, EmptyDict)],
    [pattern |-> "backup successful",
     result |-> ClassificationResult("REGEX_BACKUP_SUCCESS", "backup-successful", 100, EmptyDict)],
    [pattern |-> "Test skipped due to unstable environment",
     result |-> ClassificationResult("REGEX_SKIP_ENV", SKIP, 100, EmptyDict)],
    [pattern |-> "Skipping test, feature flag is disabled",
     result |-> ClassificationResult("REGEX_SKIP_FLAG", NEW_SKIP, 100, EmptyDict)],
    [pattern |-> "error restoring snapshot oadp-2345",
     result |-> ClassificationResult("REGEX_KNOWN_BUG_2345", "known-bug-oadp-2345", 100, EmptyDict)],
    [pattern |-> "automation framework panicked",
     result |-> ClassificationResult("REGEX_KNOWN_AUTO_ISSUE_2345", "known-automation-issue-oadp-2345", 100, <<<<"ticket", "AUTO-112">>>>)]
>>

\* the `patterns` dict of _regex_classifier, in insertion order
patterns == <<
    [pattern |-> "Connection timed out",
     result |-> ClassificationResult("REGEX_TIMEOUT", "Known Flake", 99, <<<<"ticket", "PROJ-123">>>>)],
    [pattern |-> "database migration setup",
     result |-> ClassificationResult("REGEX_DB_MIGRATE", "Setup Failure", 95, EmptyDict)],
    [pattern |-> "mysql validation failed",
     result |-> ClassificationResult("REGEX_MYSQL_VALIDATE", "ocp-mysql-validation-failure", 96, EmptyDict)],
    [pattern |-> "mysql cleanup failed",
     result |-> ClassificationResult("REGEX_MYSQL_CLEANUP", "ocp-mysql-cleanup-failure", 96, EmptyDict)],
    [pattern |-> "ocp-mysql deploy failed",
     result |-> ClassificationResult("REGEX_MYSQL_DEPLOY", "ocp-mysql-deploy-failure", 97, EmptyDict)],
    [pattern |-> "backup completed with warnings",
     result |-> ClassificationResult("REGEX_BACKUP_PARTIAL", "backup-partially-failed", 90, EmptyDict)],
    [pattern |-> "backup successful",
     result |-> ClassificationResult("REGEX_BACKUP_SUCCESS", "backup-successful", 100, EmptyDict)],
    [pattern |-> "Test skipped due to unstable environment",
     result |-> ClassificationResult("REGEX_SKIP_ENV", SKIP, 100, EmptyDict)],
    [pattern |-> "Skipping test, feature flag is disabled",
     result |-> ClassificationResult("REGEX_SKIP_FLAG", NEW_SKIP, 100, EmptyDict)],
    [pattern |-> "error restoring snapshot oadp-2345",
     result |-> ClassificationResult("REGEX_KNOWN_BUG_2345", "known-bug-oadp-2345", 100, <<<<"ticket", "OADP-2345">>>>)],
    [pattern |-> "automation framework panicked",
     result |-> ClassificationResult("REGEX_KNOWN_AUTO_ISSUE_2345", "known-automation-issue-oadp-2345", 100, <<<<"ticket", "AUTO-112">>>>)]
>>

QUOTE == "\""
USE_ROLE == "use_role\":\""

\* the text of a token before its first double quote, for the tokens that hold one
BeforeQuote(t) == IF t = USE_ROLE THEN <<"use_role">> ELSE <<>>

HasQuote(t) == t \in {QUOTE, USE_ROLE}

\* group(1) of re.search(r"ansible-playbook error.*use_role\":\"([^\"]+)\"", logs,
\* re.DOTALL), as <<>> when there is no match: ".*" is greedy, so the last
\* use_role":" that a match can go through is taken; "[^\"]+" then runs to the
\* next double quote and must not be empty.  No re.IGNORECASE here.
ansible_group(logs) ==
    LET n == Len(logs)
        Close(j) == CHOOSE k \in (j+1)..n :
                        HasQuote(logs[k]) /\ \A m \in (j+1)..(k-1) : ~ HasQuote(logs[m])
        Group(j) == SubSeq(logs, j+1, Close(j) - 1) \o BeforeQuote(logs[Close(j)])
        Valid(j) == /\ logs[j] = USE_ROLE
                    /\ \E i \in 1..(j-1) : Contains("ansible-playbook error", <<logs[i]>>)
                    /\ \E k \in (j+1)..n : HasQuote(logs[k])
                    /\ Group(j) # <<>>
        Js == {j \in 1..n : Valid(j)}
    IN  IF Js = {} THEN <<>>
        ELSE Group(CHOOSE j \in Js : \A m \in Js : m <= j)

\* the text after the last "/" of a token that holds one
AfterSlash(t) ==
    CASE t = ".../roles/ocp-datagrid" -> "ocp-datagrid"
      [] OTHER -> t

HasSlash(t) == AfterSlash(t) # t

\* text.split('/')[-1]
last_segment(text) ==
    LET S == {i \in 1..Len(text) : HasSlash(text[i])}
    IN  IF S = {} THEN text
        ELSE LET k == CHOOSE i \in S : \A m \in S : m <= i
             IN  <<AfterSlash(text[k])>> \o SubSeq(text, k+1, Len(text))

\* faulty variant: re.IGNORECASE is missing from the search of the table's patterns
_regex_classifier_case_sensitive(logs) ==
    LET Hit(p) == Contains(p.pattern, logs)
        hits == SelectSeq(patterns, Hit)
        found == [i \in 1..Len(hits) |-> hits[i].result]
        g == ansible_group(logs)
    IN  IF g # <<>>
        THEN Append(found, ClassificationResult("REGEX_ANSIBLE_FAILURE", "Ansible Deploy Failure", 98,
                                                <<<<"failed_role", last_segment(g)>>>>))
        ELSE found

_regex_classifier(logs) ==
    LET lower == Lower(logs)
        Hit(p) == Contains(LowerOf(p.pattern), lower)
        hits == SelectSeq(patterns, Hit)
        found == [i \in 1..Len(hits) |-> hits[i].result]
        g == ansible_group(logs)
    IN  IF g # <<>>
        THEN Append(found, ClassificationResult("REGEX_ANSIBLE_FAILURE", "Ansible Deploy Failure", 98,
                                                <<<<"failed_role", last_segment(g)>>>>))
        ELSE found

_llm_classifier(logs) ==
    (IF Contains("nullpointerexception", Lower(logs))
     THEN <<ClassificationResult("LLM_NPE", "New Product Bug", 92, <<<<"exception", "NullPointerException">>>>)>>
     ELSE <<>>)
    \o
    (IF Contains("permission denied", Lower(logs))
     THEN <<ClassificationResult("LLM_PERMS", "Infrastructure Error", 88, <<<<"error", "Permission denied">>>>)>>
     ELSE <<>>)

\* faulty variant: the test name is compared with the phrase, not searched for it
_step_based_classifier_exact_name(test_name, failed_step) ==
    IF failed_step = <<>> THEN <<>>
    ELSE IF test_name = <<"test_mysql_backup">> /\ Contains("Verify backup integrity", failed_step)
         THEN <<ClassificationResult("STEP_BACKUP_INTEGRITY", "Backup Integrity Failure", 100,
                    << <<"reason", "Checksum mismatch">>, <<"failed_step", failed_step>> >>)>>
         ELSE <<>>

_step_based_classifier(test_name, failed_step) ==
    IF failed_step = <<>> THEN <<>>
    ELSE IF Contains("test_mysql_backup", test_name) /\ Contains("Verify backup integrity", failed_step)
         THEN <<ClassificationResult("STEP_BACKUP_INTEGRITY", "Backup Integrity Failure", 100,
                    << <<"reason", "Checksum mismatch">>, <<"failed_step", failed_step>> >>)>>
         ELSE <<>>

\* faulty variant: reverse=True is missing, the list is sorted by ascending confidence
RECURSIVE sorted_ascending(_)
sorted_ascending(s) ==
    IF Len(s) = 0 THEN <<>>
    ELSE LET k == CHOOSE i \in 1..Len(s) :
                      /\ \A j \in 1..Len(s) : s[j].confidence >= s[i].confidence
                      /\ \A j \in 1..(i-1) : s[j].confidence > s[i].confidence
         IN  <<s[k]>> \o sorted_ascending(SubSeq(s, 1, k-1) \o SubSeq(s, k+1, Len(s)))

\* faulty variant: the sort is not stable, of equal confidences the later comes first
RECURSIVE sorted_ties_reversed(_)
sorted_ties_reversed(s) ==
    IF Len(s) = 0 THEN <<>>
    ELSE LET k == CHOOSE i \in 1..Len(s) :
                      /\ \A j \in 1..Len(s) : s[j].confidence <= s[i].confidence
                      /\ \A j \in (i+1)..Len(s) : s[j].confidence < s[i].confidence
         IN  <<s[k]>> \o sorted_ties_reversed(SubSeq(s, 1, k-1) \o SubSeq(s, k+1, Len(s)))

\* sorted(s, key=lambda x: x.confidence, reverse=True): stable, equal keys keep
\* their order
RECURSIVE sorted_by_confidence(_)
sorted_by_confidence(s) ==
    IF Len(s) = 0 THEN <<>>
    ELSE LET k == CHOOSE i \in 1..Len(s) :
                      /\ \A j \in 1..Len(s) : s[j].confidence <= s[i].confidence
                      /\ \A j \in 1..(i-1) : s[j].confidence < s[i].confidence
         IN  <<s[k]>> \o sorted_by_confidence(SubSeq(s, 1, k-1) \o SubSeq(s, k+1, Len(s)))

IsSkip(c) == c.classification_type \in SkipFamily

\* the keys of {c.classifier_id: c for c in all_classifications}
ClassifierIds(s) == [i \in 1..Len(s) |-> s[i].classifier_id]

\* the candidates of the three strategies, concatenated
all_classifications(test_result) ==
    _regex_classifier(test_result.logs)
    \o _llm_classifier(test_result.logs)
    \o _step_based_classifier(test_result.test_name, test_result.failed_step)

\* faulty variant: every skip candidate is returned, not the first alone
classify_result_all_skips(test_result) ==
    LET all == all_classifications(test_result)
        skip_classifications == SelectSeq(all, IsSkip)
    IN  IF skip_classifications # <<>> THEN skip_classifications
        ELSE IF all = <<>>
             THEN <<ClassificationResult("DEFAULT_REVIEW", NEEDS_MANUAL_REVIEW, 50, EmptyDict)>>
             ELSE sorted_by_confidence(DedupByKey(all, ClassifierIds(all)))

\* faulty variant: the default is taken when the pattern strategy alone found nothing
classify_result_default_on_no_pattern(test_result) ==
    LET all == all_classifications(test_result)
        skip_classifications == SelectSeq(all, IsSkip)
    IN  IF skip_classifications # <<>> THEN <<skip_classifications[1]>>
        ELSE IF _regex_classifier(test_result.logs) = <<>>
             THEN <<ClassificationResult("DEFAULT_REVIEW", NEEDS_MANUAL_REVIEW, 50, EmptyDict)>>
             ELSE sorted_by_confidence(DedupByKey(all, ClassifierIds(all)))

\* faulty variant: the default for an empty list is missing
classify_result_no_default(test_result) ==
    LET all == all_classifications(test_result)
        skip_classifications == SelectSeq(all, IsSkip)
    IN  IF skip_classifications # <<>> THEN <<skip_classifications[1]>>
        ELSE sorted_by_confidence(DedupByKey(all, ClassifierIds(all)))

\* classify, from the fetched record on
classify_result(test_result) ==
    LET all == all_classifications(test_result)
        skip_classifications == SelectSeq(all, IsSkip)
    IN  IF skip_classifications # <<>> THEN <<skip_classifications[1]>>
        ELSE IF all = <<>>
             THEN <<ClassificationResult("DEFAULT_REVIEW", NEEDS_MANUAL_REVIEW, 50, EmptyDict)>>
             ELSE sorted_by_confidence(DedupByKey(all, ClassifierIds(all)))

----------------------------------------------------------------------------
(* Rule engine                                                             *)

ActionCommand(type, payload) == [action_type |-> type, payload |-> payload]

\* the keys of {a.action_type: a for a in actions}
ActionTypes(s) == [i \in 1..Len(s) |-> s[i].action_type]

\* faulty variant: the table has an entry that gives Do Nothing for a successful backup
rule_commands_success_does_nothing(test, c) ==
    CASE c.classification_type = "New Product Bug" ->
            <<ActionCommand("Create Jira Ticket", <<<<"test_name", test.test_name>>>>)>>
      [] c.classification_type \in {"known-bug-oadp-2345", "known-automation-issue-oadp-2345"} ->
            <<ActionCommand("Update Jira Ticket", <<<<"ticket", dict_get(c.details, "ticket")>>>>)>>
      [] c.classification_type = "Backup Integrity Failure" ->
            <<ActionCommand("Notify Slack", << <<"channel", "#storage-team">>, <<"details", c.details>> >>)>>
      [] c.classification_type = "Ansible Deploy Failure" ->
            <<ActionCommand("Notify Slack", << <<"channel", "#devops-ansible">>,
                                               <<"failed_role", dict_get(c.details, "failed_role")>> >>)>>
      [] c.classification_type = "Known Flake" ->
            <<ActionCommand("Mark for Rerun", <<<<"reason", "Known flaky test">>>>)>>
      [] c.classification_type = "Infrastructure Error" ->
            <<ActionCommand("Run Custom Script", <<<<"script_path", "/scripts/cleanup_stale_resources.sh">>>>),
              ActionCommand("Mark for Manual Review", <<<<"reason", "Infrastructure instability">>>>)>>
      [] c.classification_type = "backup-successful" ->
            <<ActionCommand("Do Nothing", EmptyDict)>>
      [] OTHER -> <<>>

\* the commands one candidate appends in the for loop of _apply_rules
rule_commands(test, c) ==
    CASE c.classification_type = "New Product Bug" ->
            <<ActionCommand("Create Jira Ticket", <<<<"test_name", test.test_name>>>>)>>
      [] c.classification_type \in {"known-bug-oadp-2345", "known-automation-issue-oadp-2345"} ->
            <<ActionCommand("Update Jira Ticket", <<<<"ticket", dict_get(c.details, "ticket")>>>>)>>
      [] c.classification_type = "Backup Integrity Failure" ->
            <<ActionCommand("Notify Slack", << <<"channel", "#storage-team">>, <<"details", c.details>> >>)>>
      [] c.classification_type = "Ansible Deploy Failure" ->
            <<ActionCommand("Notify Slack", << <<"channel", "#devops-ansible">>,
                                               <<"failed_role", dict_get(c.details, "failed_role")>> >>)>>
      [] c.classification_type = "Known Flake" ->
            <<ActionCommand("Mark for Rerun", <<<<"reason", "Known flaky test">>>>)>>
      [] c.classification_type = "Infrastructure Error" ->
            <<ActionCommand("Run Custom Script", <<<<"script_path", "/scripts/cleanup_stale_resources.sh">>>>),
              ActionCommand("Mark for Manual Review", <<<<"reason", "Infrastructure instability">>>>)>>
      [] OTHER -> <<>>

\* c.details[key] raises KeyError for a key the dict does not hold
rule_raises(c) ==
    \/ /\ c.classification_type \in {"known-bug-oadp-2345", "known-automation-issue-oadp-2345"}
       /\ ~ dict_has(c.details, "ticket")
    \/ /\ c.classification_type = "Ansible Deploy Failure"
       /\ ~ dict_has(c.details, "failed_role")

\* faulty variant: the default for an empty list of commands is missing
accumulated_actions_no_default(test, cls) ==
    LET A[n \in 0..Len(cls)] ==
            IF n = 0 THEN <<>> ELSE A[n-1] \o rule_commands(test, cls[n])
    IN  A[Len(cls)]

\* the list `actions` of _apply_rules after its for loop and its default
accumulated_actions(test, cls) ==
    LET A[n \in 0..Len(cls)] ==
            IF n = 0 THEN <<>> ELSE A[n-1] \o rule_commands(test, cls[n])
    IN  IF A[Len(cls)] = <<>>
        THEN <<ActionCommand("Mark for Manual Review", <<<<"reason", "No specific rule matched">>>>)>>
        ELSE A[Len(cls)]

\* faulty variant: the accumulated list is returned as it is, without the dict that
\* keeps one command per action kind
_apply_rules_no_dedup(test, cls) ==
    IF cls # <<>> /\ IsSkip(cls[1])
    THEN [raises |-> FALSE, actions |-> <<ActionCommand("Do Nothing", EmptyDict)>>]
    ELSE IF \E i \in 1..Len(cls) : rule_raises(cls[i])
    THEN [raises |-> TRUE, actions |-> <<>>]
    ELSE [raises |-> FALSE, actions |-> accumulated_actions(test, cls)]

\* faulty variant: the test of the primary classification is missing, so a skip
\* candidate goes through the for loop like any other
_apply_rules_no_skip_rule(test, cls) ==
    IF \E i \in 1..Len(cls) : rule_raises(cls[i])
    THEN [raises |-> TRUE, actions |-> <<>>]
    ELSE LET actions == accumulated_actions(test, cls)
         IN  [raises |-> FALSE, actions |-> DedupByKey(actions, ActionTypes(actions))]

\* faulty variant: of the commands of one action kind the first is kept, not the last
_apply_rules_first_wins(test, cls) ==
    IF cls # <<>> /\ IsSkip(cls[1])
    THEN [raises |-> FALSE, actions |-> <<ActionCommand("Do Nothing", EmptyDict)>>]
    ELSE IF \E i \in 1..Len(cls) : rule_raises(cls[i])
    THEN [raises |-> TRUE, actions |-> <<>>]
    ELSE LET actions == accumulated_actions(test, cls)
             FirstOfKind(a) == a = actions[CHOOSE i \in 1..Len(actions) :
                                      /\ actions[i].action_type = a.action_type
                                      /\ \A j \in 1..(i-1) : actions[j].action_type # a.action_type]
         IN  [raises |-> FALSE, actions |-> SelectSeq(actions, FirstOfKind)]

\* _apply_rules: [raises |-> an exception escapes, actions |-> the list returned]
_apply_rules(test, cls) ==
    IF cls # <<>> /\ IsSkip(cls[1])
    THEN [raises |-> FALSE, actions |-> <<ActionCommand("Do Nothing", EmptyDict)>>]
    ELSE IF \E i \in 1..Len(cls) : rule_raises(cls[i])
    THEN [raises |-> TRUE, actions |-> <<>>]
    ELSE LET actions == accumulated_actions(test, cls)
         IN  [raises |-> FALSE, actions |-> DedupByKey(actions, ActionTypes(actions))]

----------------------------------------------------------------------------
(* Action executor                                                         *)

\* the values uuid.uuid4().hex may start with
Uuids == {"0a1b2c3d", "4e5f6a7b"}

\* faulty variant: the branches assign a new payload instead of updating the one
\* that holds the action kind
execute_action_payload_replaced(command, uuid) ==
    LET action_type == command.action_type
    IN  CASE action_type = "Create Jira Ticket" ->
                << <<"status", "SUCCESS">>, <<"ticket_id", <<"PROJ-", uuid>> >> >>
          [] action_type = "Update Jira Ticket" ->
                << <<"status", "SUCCESS">>,
                   <<"ticket_id", IF dict_has(command.payload, "ticket")
                                  THEN dict_get(command.payload, "ticket")
                                  ELSE "N/A">>,
                   <<"comment", "New failure instance linked.">> >>
          [] action_type = "Run Custom Script" ->
                << <<"status", "SUCCESS">>,
                   <<"script", dict_get(command.payload, "script_path")>>,
                   <<"logs", <<"Executing ", dict_get(command.payload, "script_path"), "...">> >>,
                   <<"artifacts", <<<<"report_url", uuid>>>> >> >>
          [] OTHER ->
                << <<"status", "INFO">>,
                   <<"message", <<"Action '", action_type, "' recorded.">> >> >>

\* execute_action, with the uuid it draws
execute_action(command, uuid) ==
    LET action_type == command.action_type
        payload == <<<<"action_type", action_type>>>>
    IN  CASE action_type = "Create Jira Ticket" ->
                dict_update(payload, << <<"status", "SUCCESS">>, <<"ticket_id", <<"PROJ-", uuid>> >> >>)
          [] action_type = "Update Jira Ticket" ->
                dict_update(payload, << <<"status", "SUCCESS">>,
                                        <<"ticket_id", IF dict_has(command.payload, "ticket")
                                                       THEN dict_get(command.payload, "ticket")
                                                       ELSE "N/A">>,
                                        <<"comment", "New failure instance linked.">> >>)
          [] action_type = "Run Custom Script" ->
                dict_update(payload, << <<"status", "SUCCESS">>,
                                        <<"script", dict_get(command.payload, "script_path")>>,
                                        <<"logs", <<"Executing ", dict_get(command.payload, "script_path"), "...">> >>,
                                        <<"artifacts", <<<<"report_url", uuid>>>> >> >>)
          [] OTHER ->
                dict_update(payload, << <<"status", "INFO">>,
                                        <<"message", <<"Action '", action_type, "' recorded.">> >> >>)

----------------------------------------------------------------------------
(* Run store                                                               *)

None == [none |-> TRUE]

TestResult(test_name, logs, test_run_id) ==
    [test_name |-> test_name, logs |-> logs, test_run_id |-> test_run_id,
     steps |-> <<>>, failed_step |-> None, analysis |-> EmptyDict]

\* faulty variant: the record is added to the store whether or not its id is a key
save_test_result_appending(store, result) == Append(store, <<result.test_run_id, result>>)

save_test_result(store, result) == dict_set(store, result.test_run_id, result)

get_test_result(store, test_run_id) ==
    IF dict_has(store, test_run_id) THEN dict_get(store, test_run_id) ELSE None

\* faulty variant: the analysis record is replaced by the data, not updated with it
update_analysis_replacing(store, test_run_id, analysis_data) ==
    IF dict_has(store, test_run_id)
    THEN LET r == dict_get(store, test_run_id)
         IN  dict_set(store, test_run_id, [r EXCEPT !.analysis = analysis_data])
    ELSE store

update_analysis(store, test_run_id, analysis_data) ==
    IF dict_has(store, test_run_id)
    THEN LET r == dict_get(store, test_run_id)
         IN  dict_set(store, test_run_id,
                      [r EXCEPT !.analysis = dict_update(r.analysis, analysis_data)])
    ELSE store

get_all_results(store) == [i \in 1..Len(store) |-> store[i][2]]

\* faulty variant: the early return for a run the store does not hold is missing, the
\* default candidate is returned instead
classify_default_for_unknown(store, test_run_id) ==
    LET test_result == get_test_result(store, test_run_id)
    IN  IF test_result = None
        THEN <<ClassificationResult("DEFAULT_REVIEW", NEEDS_MANUAL_REVIEW, 50, EmptyDict)>>
        ELSE classify_result(test_result)

\* faulty variant: the run classified is the one saved last, not the one asked for
classify_latest_run(store, test_run_id) ==
    IF ~ dict_has(store, test_run_id) THEN <<>>
    ELSE classify_result(store[Len(store)][2])

\* ClassifierEngine.classify
classify(store, test_run_id) ==
    LET test_result == get_test_result(store, test_run_id)
    IN  IF test_result = None THEN <<>> ELSE classify_result(test_result)

\* DecisionEngine.process_test_result as a whole, for a record and a store:
\* [raises |-> an exception escapes, store |-> the store after the call,
\*  actions |-> the commands returned]
process_test_result(store, test_result) ==
    LET p == parse_ginkgo_steps(test_result.logs)
        parsed == [test_result EXCEPT !.steps = p.steps, !.failed_step = p.failed_step]
        saved == save_test_result(store, parsed)
        cls == classify(saved, parsed.test_run_id)
        r == _apply_rules(parsed, cls)
    IN  [raises |-> r.raises,
         store |-> IF r.raises THEN saved
                   ELSE update_analysis(saved, parsed.test_run_id,
                            << <<"classifications", cls>>, <<"actions", r.actions>> >>),
         actions |-> r.actions]

----------------------------------------------------------------------------
(* Inputs                                                                  *)

\* the tokens of the logs handed to the step extractor alone
StepTokens == {NL, STEP, SP, "Verify backup integrity", "Setting up environment", "ERROR", "FAIL"}

StepLogs == UNION {[1..n -> StepTokens] : n \in 0..MaxLogLen}

\* the lines of the logs submitted to the pipeline
LogLines == {
    <<STEP, SP, "Verify backup integrity">>,
    <<STEP, SP, "Setting up environment">>,
    <<"FAIL">>,
    <<"Connection timed out", SP, "FATAL", SP, "NullPointerException">>,
    <<"database migration setup">>,
    <<"ERROR", SP, "mysql validation failed", SP, "permission denied">>,
    <<"mysql cleanup failed">>,
    <<"ocp-mysql deploy failed", SP, "backup completed with warnings">>,
    <<"backup successful">>,
    <<"Test skipped due to unstable environment">>,
    <<"Skipping test, feature flag is disabled">>,
    <<"SKIPPING TEST, FEATURE FLAG IS DISABLED", SP, "NullPointerException">>,
    <<"error restoring snapshot oadp-2345">>,
    <<"automation framework panicked">>,
    <<"ansible-playbook error", USE_ROLE, ".../roles/ocp-datagrid", QUOTE>>,
    <<"Ansible-Playbook Error", USE_ROLE, ".../roles/ocp-datagrid", QUOTE>>,
    <<"Permission Denied">>,
    <<"CONNECTION TIMED OUT">> }

\* "\n".join(lines)
RECURSIVE join_lines(_)
join_lines(lines) ==
    IF Len(lines) = 0 THEN <<>>
    ELSE IF Len(lines) = 1 THEN lines[1]
    ELSE lines[1] \o <<NL>> \o join_lines(Tail(lines))

Logs == {join_lines(ls) : ls \in UNION {[1..n -> LogLines] : n \in 0..MaxLines}}

TestNames == {<<"test_mysql_backup_and_verify">>, <<"test_unclassified_failure">>}

\* the run ids: uuid4 values; SubmitIds are those given to submitted runs
RunIds == {"run-a", "run-b"}
SubmitIds == {"run-a"}

----------------------------------------------------------------------------
(* Operations                                                              *)

\* no call from outside has returned yet
NoCall == [op |-> "none"]

\* the locals of a request that has not started
IdleRequest ==
    [pc |-> "idle", cur |-> None, classifications |-> <<>>, action_commands |-> <<>>,
     action_results |-> <<>>, tests |-> <<>>]

Init ==
    /\ db = EmptyDict
    /\ pc = "idle"
    /\ cur = None
    /\ classifications = <<>>
    /\ action_commands = <<>>
    /\ action_results = <<>>
    /\ raised = FALSE
    /\ ret = NoCall
    /\ issued = {}
    /\ tests = <<>>
    /\ parked = IdleRequest

\* faulty variant: the batch starts without data_service.clear()
StartSimulation_without_clear ==
    /\ pc = "idle"
    /\ pc' = "loop"
    /\ tests' = <<>>
    /\ ret' = NoCall
    /\ UNCHANGED <<db, cur, classifications, action_commands, action_results, raised, issued, parked>>

\* dashboard_view -> run_full_simulation, down to the for loop: the store is cleared
StartSimulation ==
    /\ pc = "idle"
    /\ db' = EmptyDict
    /\ pc' = "loop"
    /\ tests' = <<>>
    /\ ret' = NoCall
    /\ UNCHANGED <<cur, classifications, action_commands, action_results, raised, issued, parked>>

\* run_full_simulation's loop takes the next TestResult and process_test_result
\* does its first half: the steps are extracted and the run is saved.  The run's
\* id is a fresh uuid4 (TestResult.test_run_id): a value not drawn before.
process_next_test(test_run_id, names, logset) ==
    /\ pc = "loop"
    /\ test_run_id \notin issued
    /\ issued' = issued \cup {test_run_id}
    /\ tests' = Append(tests, test_run_id)
    /\ \E test_name \in names, logs \in logset :
          LET test == TestResult(test_name, logs, test_run_id)
              p == parse_ginkgo_steps(test.logs)
              test_result == [test EXCEPT !.steps = p.steps, !.failed_step = p.failed_step]
          IN  /\ cur' = test_result
              /\ db' = save_test_result(db, test_result)
    /\ pc' = "classify"
    /\ UNCHANGED <<classifications, action_commands, action_results, raised, ret, parked>>

\* the next test of a batch whose tests have a name of TestNames and a log of Logs
ProcessTestResult(test_run_id) == process_next_test(test_run_id, TestNames, Logs)

\* process_test_result: classifications = self._classifier.classify(test_run_id)
Classify ==
    /\ pc = "classify"
    /\ classifications' = classify(db, cur.test_run_id)
    /\ pc' = "rules"
    /\ UNCHANGED <<db, cur, action_commands, action_results, raised, ret>>
    /\ UNCHANGED <<issued, tests, parked>>

\* process_test_result, second half: the rules are applied and the analysis is
\* merged into the stored run (the object in hand is the stored object)
ApplyRules ==
    /\ pc = "rules"
    /\ LET r == _apply_rules(cur, classifications)
       IN  IF r.raises
           THEN /\ raised' = TRUE
                /\ pc' = "idle"
                /\ UNCHANGED <<db, cur, action_commands>>
           ELSE /\ action_commands' = r.actions
                /\ db' = update_analysis(db, cur.test_run_id,
                             << <<"classifications", classifications>>, <<"actions", r.actions>> >>)
                /\ cur' = IF dict_has(db, cur.test_run_id)
                          THEN get_test_result(db', cur.test_run_id) ELSE cur
                /\ pc' = "execute"
                /\ UNCHANGED raised
    /\ action_results' = <<>>
    /\ UNCHANGED <<classifications, ret>>
    /\ UNCHANGED <<issued, tests, parked>>

\* one turn of [action_executor.execute_action(cmd) for cmd in action_commands]
ExecuteAction ==
    /\ pc = "execute"
    /\ Len(action_results) < Len(action_commands)
    /\ \E uuid \in Uuids :
          action_results' = Append(action_results,
                                   execute_action(action_commands[Len(action_results) + 1], uuid))
    /\ UNCHANGED <<db, pc, cur, classifications, action_commands, raised, ret>>
    /\ UNCHANGED <<issued, tests, parked>>

\* faulty variant: the merge of the action results is not in the loop body, the
\* loop goes on to the next test without it
UpdateResults_outside_loop ==
    /\ pc = "execute"
    /\ Len(action_results) = Len(action_commands)
    /\ pc' = "loop"
    /\ cur' = None
    /\ classifications' = <<>>
    /\ action_commands' = <<>>
    /\ action_results' = <<>>
    /\ UNCHANGED <<db, raised, ret>>
    /\ UNCHANGED <<issued, tests, parked>>

\* data_service.update_analysis(test.test_run_id, {"action_results": action_results}),
\* and back to the head of the for loop
UpdateResults ==
    /\ pc = "execute"
    /\ Len(action_results) = Len(action_commands)
    /\ db' = update_analysis(db, cur.test_run_id, <<<<"action_results", action_results>>>>)
    /\ pc' = "loop"
    /\ cur' = None
    /\ classifications' = <<>>
    /\ action_commands' = <<>>
    /\ action_results' = <<>>
    /\ UNCHANGED <<raised, ret>>
    /\ UNCHANGED <<issued, tests, parked>>

\* run_full_simulation after the for loop: the stored runs are returned
FinishSimulation ==
    /\ pc = "loop"
    /\ pc' = "idle"
    /\ ret' = [op |-> "get_all_results", list |-> get_all_results(db)]
    /\ UNCHANGED <<db, cur, classifications, action_commands, action_results, raised>>
    /\ UNCHANGED <<issued, tests, parked>>

\* log_view: data_service.get_test_result(test_run_id)
GetTestResult(test_run_id) ==
    /\ pc = "idle"
    /\ ret' = [op |-> "get_test_result", id |-> test_run_id,
               run |-> get_test_result(db, test_run_id)]
    /\ UNCHANGED <<db, pc, cur, classifications, action_commands, action_results, raised>>
    /\ UNCHANGED <<issued, tests, parked>>

\* ClassifierEngine.classify called with a run id
ClassifyById(test_run_id) ==
    /\ pc = "idle"
    /\ ret' = [op |-> "classify", id |-> test_run_id, list |-> classify(db, test_run_id)]
    /\ UNCHANGED <<db, pc, cur, classifications, action_commands, action_results, raised>>
    /\ UNCHANGED <<issued, tests, parked>>

Next ==
    \/ StartSimulation
    \/ \E id \in SubmitIds : ProcessTestResult(id)
    \/ Classify
    \/ ApplyRules
    \/ ExecuteAction
    \/ UpdateResults
    \/ FinishSimulation
    \/ \E id \in RunIds : GetTestResult(id)
    \/ \E id \in RunIds : ClassifyById(id)

Spec == Init /\ [][Next]_vars

----------------------------------------------------------------------------
(* The step extractor alone, on every log of StepLogs                      *)

InitSteps ==
    /\ db = EmptyDict
    /\ pc = "parse"
    /\ cur \in {TestResult(<<"test_unclassified_failure">>, l, "run-a") : l \in StepLogs}
    /\ classifications = <<>>
    /\ action_commands = <<>>
    /\ action_results = <<>>
    /\ raised = FALSE
    /\ ret = NoCall
    /\ issued = {"run-a"}
    /\ tests = <<>>
    /\ parked = IdleRequest

\* all_steps, failed_step = parse_ginkgo_steps(test_result.logs), and the assignment
ExtractSteps ==
    /\ pc = "parse"
    /\ LET p == parse_ginkgo_steps(cur.logs)
       IN  cur' = [cur EXCEPT !.steps = p.steps, !.failed_step = p.failed_step]
    /\ pc' = "parsed"
    /\ UNCHANGED <<db, classifications, action_commands, action_results, raised, ret>>
    /\ UNCHANGED <<issued, tests, parked>>

NextSteps == ExtractSteps

SpecSteps == InitSteps /\ [][NextSteps]_vars

----------------------------------------------------------------------------
(* A batch of up to two runs, with the views that read the store           *)

BatchIds == {"run-a", "run-b"}

\* the logs of the batch's tests: the step line of the integrity check with a
\* FAIL line, the timeout phrase, a log with two keyword matches, an empty log
BatchLogs == {
    <<STEP, SP, "Verify backup integrity", NL, "FAIL">>,
    <<"Connection timed out">>,
    <<"NullPointerException", SP, "Permission Denied">>,
    <<>> }

ProcessBatchTest(test_run_id) == process_next_test(test_run_id, TestNames, BatchLogs)

\* c['details_pretty'] = json.dumps(c.get('details', {}), indent=2) on the copy
\* that asdict made of a classification
with_details_pretty(c) ==
    [classifier_id |-> c.classifier_id, classification_type |-> c.classification_type,
     confidence |-> c.confidence, details |-> c.details,
     details_pretty |-> <<"json", c.details>>]

\* result_dict of log_view: asdict(test_run), a deep copy, with details_pretty
\* added to each of its classifications
result_dict(test_run) ==
    IF dict_has(test_run.analysis, "classifications")
    THEN LET cs == dict_get(test_run.analysis, "classifications")
         IN  [test_run EXCEPT !.analysis =
                 dict_set(test_run.analysis, "classifications",
                          [i \in 1..Len(cs) |-> with_details_pretty(cs[i])])]
    ELSE test_run

\* faulty variant: the page's dict is not a deep copy, details_pretty is written
\* into the stored classifications
LogView_in_place(test_run_id) ==
    /\ pc = "idle"
    /\ LET test_run == get_test_result(db, test_run_id)
       IN  IF test_run = None
           THEN /\ ret' = [op |-> "log_view", id |-> test_run_id, http404 |-> TRUE]
                /\ db' = db
           ELSE /\ ret' = [op |-> "log_view", id |-> test_run_id, http404 |-> FALSE,
                           context |-> result_dict(test_run)]
                /\ db' = dict_set(db, test_run_id, result_dict(test_run))
    /\ UNCHANGED <<pc, cur, classifications, action_commands, action_results, raised>>
    /\ UNCHANGED <<issued, tests, parked>>

\* log_view: Http404 for a run the store does not hold, else the page's context
LogView(test_run_id) ==
    /\ pc = "idle"
    /\ LET test_run == get_test_result(db, test_run_id)
       IN  ret' = IF test_run = None
                  THEN [op |-> "log_view", id |-> test_run_id, http404 |-> TRUE]
                  ELSE [op |-> "log_view", id |-> test_run_id, http404 |-> FALSE,
                        context |-> result_dict(test_run)]
    /\ UNCHANGED <<db, pc, cur, classifications, action_commands, action_results, raised>>
    /\ UNCHANGED <<issued, tests, parked>>

NextBatch ==
    \/ StartSimulation
    \/ \E id \in BatchIds : ProcessBatchTest(id)
    \/ Classify
    \/ ApplyRules
    \/ ExecuteAction
    \/ UpdateResults
    \/ FinishSimulation
    \/ \E id \in BatchIds : GetTestResult(id)
    \/ \E id \in BatchIds : ClassifyById(id)
    \/ \E id \in BatchIds : LogView(id)

SpecBatch == Init /\ [][NextBatch]_vars

----------------------------------------------------------------------------
(* Batches, and runs of the last batch submitted once more                 *)

\* process_test_result called again for a run the store holds, with the stored
\* object itself or with a new TestResult of the same id, name and log
ProcessTestResultAgain(test_run_id) ==
    /\ pc = "idle"
    /\ dict_has(db, test_run_id)
    /\ LET stored == dict_get(db, test_run_id)
       IN  \E same_object \in BOOLEAN :
              LET test_result == IF same_object THEN stored
                                 ELSE TestResult(stored.test_name, stored.logs, test_run_id)
                  r == process_test_result(db, test_result)
              IN  /\ db' = r.store
                  /\ raised' = (raised \/ r.raises)
                  /\ ret' = [op |-> "process_test_result", id |-> test_run_id, list |-> r.actions]
    /\ UNCHANGED <<pc, cur, classifications, action_commands, action_results>>
    /\ UNCHANGED <<issued, tests, parked>>

NextResubmit ==
    \/ StartSimulation
    \/ \E id \in BatchIds : ProcessBatchTest(id)
    \/ Classify
    \/ ApplyRules
    \/ ExecuteAction
    \/ UpdateResults
    \/ FinishSimulation
    \/ \E id \in BatchIds : ProcessTestResultAgain(id)

SpecResubmit == Init /\ [][NextResubmit]_vars

----------------------------------------------------------------------------
(* Two dashboard requests at once: each runs run_full_simulation with its   *)
(* own locals on the one SIMULATION_DB, and the thread scheduler may switch *)
(* from one to the other between any two steps                              *)

\* the locals of the request that is running
Running ==
    [pc |-> pc, cur |-> cur, classifications |-> classifications,
     action_commands |-> action_commands, action_results |-> action_results,
     tests |-> tests]

\* the scheduler parks the running request and resumes the other
SwitchRequest ==
    /\ pc' = parked.pc
    /\ cur' = parked.cur
    /\ classifications' = parked.classifications
    /\ action_commands' = parked.action_commands
    /\ action_results' = parked.action_results
    /\ tests' = parked.tests
    /\ parked' = Running
    /\ UNCHANGED <<db, raised, ret, issued>>

NextConcurrent ==
    \/ StartSimulation
    \/ \E id \in BatchIds : ProcessBatchTest(id)
    \/ Classify
    \/ ApplyRules
    \/ ExecuteAction
    \/ UpdateResults
    \/ FinishSimulation
    \/ SwitchRequest

SpecConcurrent == Init /\ [][NextConcurrent]_vars

----------------------------------------------------------------------------
(* The run store alone: the methods of DataContextService called in any    *)
(* order                                                                   *)

StoreIds == {"run-a", "run-b"}

StoreLogs == {<<"Connection timed out">>, <<"NullPointerException", SP, "Permission Denied">>}

\* a run as process_test_result saves it: a new TestResult with its steps
StoreRuns(test_run_id) ==
    {LET test == TestResult(<<"test_unclassified_failure">>, logs, test_run_id)
         p == parse_ginkgo_steps(logs)
     IN  [test EXCEPT !.steps = p.steps, !.failed_step = p.failed_step] : logs \in StoreLogs}

\* the dicts the pipeline hands to update_analysis: the rule engine's
\* {"classifications": ..., "actions": ...} and the batch driver's
\* {"action_results": ...}
AnalysisData ==
    LET Commands(run) == _apply_rules(run, classify_result(run)).actions
    IN  {<< <<"classifications", classify_result(run)>>, <<"actions", Commands(run)>> >> :
            run \in StoreRuns("run-a")}
        \cup
        {<< <<"action_results",
              [i \in 1..Len(Commands(run)) |-> execute_action(Commands(run)[i], "0a1b2c3d")]>> >> :
            run \in StoreRuns("run-a")}

SaveTestResult(test_run_id) ==
    /\ pc = "idle"
    /\ ~ dict_has(db, test_run_id)
    /\ \E result \in StoreRuns(test_run_id) : db' = save_test_result(db, result)
    /\ ret' = [op |-> "save_test_result", id |-> test_run_id]
    /\ UNCHANGED <<pc, cur, classifications, action_commands, action_results, raised>>
    /\ UNCHANGED <<issued, tests, parked>>

UpdateAnalysis(test_run_id) ==
    /\ pc = "idle"
    /\ \E analysis_data \in AnalysisData :
          /\ db' = update_analysis(db, test_run_id, analysis_data)
          /\ ret' = [op |-> "update_analysis", id |-> test_run_id, data |-> analysis_data]
    /\ UNCHANGED <<pc, cur, classifications, action_commands, action_results, raised>>
    /\ UNCHANGED <<issued, tests, parked>>

GetAllResults ==
    /\ pc = "idle"
    /\ ret' = [op |-> "get_all_results", list |-> get_all_results(db)]
    /\ UNCHANGED <<db, pc, cur, classifications, action_commands, action_results, raised>>
    /\ UNCHANGED <<issued, tests, parked>>

Clear ==
    /\ pc = "idle"
    /\ db' = EmptyDict
    /\ ret' = [op |-> "clear"]
    /\ UNCHANGED <<pc, cur, classifications, action_commands, action_results, raised>>
    /\ UNCHANGED <<issued, tests, parked>>

NextStore ==
    \/ \E id \in StoreIds : SaveTestResult(id)
    \/ \E id \in StoreIds : UpdateAnalysis(id)
    \/ \E id \in StoreIds : GetTestResult(id)
    \/ GetAllResults
    \/ Clear

SpecStore == Init /\ [][NextStore]_vars

----------------------------------------------------------------------------
(* What a state shows of the pipeline's results                            *)

\* the stored run at place i of the store
StoredRun(i) == db[i][2]

\* the <<run, list>> pairs a state shows of classify's results for stored runs:
\* the local of process_test_result, the list merged into the run's analysis,
\* and the list returned to a caller from outside
ShownClassifications ==
    (IF pc \in {"rules", "execute"} THEN {<<cur, classifications>>} ELSE {})
    \cup {<<StoredRun(i), dict_get(StoredRun(i).analysis, "classifications")>> :
             i \in {j \in 1..Len(db) : dict_has(StoredRun(j).analysis, "classifications")}}
    \cup (IF ret.op = "classify" /\ dict_has(db, ret.id)
          THEN {<<dict_get(db, ret.id), ret.list>>} ELSE {})

\* the <<run, list>> pairs a state shows of _apply_rules' results: the local of
\* process_test_result and the list merged into the run's analysis
ShownActionLists ==
    (IF pc = "execute" THEN {<<cur, action_commands>>} ELSE {})
    \cup {<<StoredRun(i), dict_get(StoredRun(i).analysis, "actions")>> :
             i \in {j \in 1..Len(db) : dict_has(StoredRun(j).analysis, "actions")}}

\* the candidates of the three strategies for a run, in concatenation order
StrategyCandidates(run) ==
    _regex_classifier(run.logs) \o _llm_classifier(run.logs)
        \o _step_based_classifier(run.test_name, run.failed_step)

SomeSkip(all) == \E i \in 1..Len(all) : all[i].classification_type \in {"skip", "new-skip"}

SomeSkipCandidate(run) == SomeSkip(StrategyCandidates(run))

\* a run has passed through the whole pipeline
Completed(run) ==
    /\ dict_has(run.analysis, "classifications")
    /\ dict_has(run.analysis, "actions")
    /\ dict_has(run.analysis, "action_results")

----------------------------------------------------------------------------
(* Claims                                                                  *)

SkipExclusive(run, list) ==
    LET all == StrategyCandidates(run)
        first == CHOOSE i \in 1..Len(all) :
                     /\ all[i].classification_type \in {"skip", "new-skip"}
                     /\ \A j \in 1..(i-1) : all[j].classification_type \notin {"skip", "new-skip"}
    IN  SomeSkip(all)
            => /\ Len(list) = 1
               /\ list[1].classification_type \in {"skip", "new-skip"}
               /\ list[1] = all[first]

\* C1: whenever a strategy yields a skip-family candidate for a stored run,
\* classify returns exactly one candidate, and it is the first skip-family
\* candidate of the concatenation pattern, keyword, structural.
C1_SkipIsExclusive == \A p \in ShownClassifications : SkipExclusive(p[1], p[2])

\* C1 witness: a completed run for which the strategies yield both skip
\* candidates and a candidate outside the skip family.
C1_Witness ==
    \E i \in 1..Len(db) :
        LET all == StrategyCandidates(StoredRun(i))
        IN  /\ Completed(StoredRun(i))
            /\ \E a, b, c \in 1..Len(all) :
                  /\ all[a].classification_type = "skip"
                  /\ all[b].classification_type = "new-skip"
                  /\ all[c].classification_type \notin {"skip", "new-skip"}

SortedUnlessSkip(run, list) ==
    (list # <<>> /\ list[1].classification_type \notin {"skip", "new-skip"})
        => \A i \in 1..(Len(list) - 1) : list[i].confidence >= list[i+1].confidence

\* C2: a classification list that is not a skip result is sorted by
\* non-increasing confidence.
C2_SortedByConfidence == \A p \in ShownClassifications : SortedUnlessSkip(p[1], p[2])

\* C2 witness: a completed run whose candidates the strategies yield in an
\* order that is not the sorted one, so that the sort moved a candidate.
C2_Witness ==
    \E i \in 1..Len(db) :
        LET all == StrategyCandidates(StoredRun(i))
        IN  /\ Completed(StoredRun(i))
            /\ ~ SomeSkipCandidate(StoredRun(i))
            /\ Len(dict_get(StoredRun(i).analysis, "classifications")) >= 2
            /\ \E a \in 1..(Len(all) - 1) : all[a].confidence < all[a+1].confidence

ManualReviewIffNoCandidate(run, list) ==
    /\ StrategyCandidates(run) = <<>>
          => /\ Len(list) = 1
             /\ list[1].classification_type = "Needs Manual Review"
             /\ list[1].confidence = 50
    /\ (\E i \in 1..Len(list) : list[i].classification_type = "Needs Manual Review")
          => StrategyCandidates(run) = <<>>

\* C3: classify returns the single Needs Manual Review candidate at
\* confidence 0.5 when no strategy yields a candidate, and only then.
C3_ManualReviewDefault == \A p \in ShownClassifications : ManualReviewIffNoCandidate(p[1], p[2])

\* C3 witness: a completed run with a log of two lines for which no strategy
\* yields a candidate.
C3_Witness ==
    \E i \in 1..Len(db) :
        /\ Completed(StoredRun(i))
        /\ StrategyCandidates(StoredRun(i)) = <<>>
        /\ Len(split_lines(StoredRun(i).logs)) = 2

OneCommandPerKind(run, list) ==
    \A i, j \in 1..Len(list) : list[i].action_type = list[j].action_type => i = j

\* C4: an action list holds at most one command of each action kind.
C4_OneCommandPerKind == \A p \in ShownActionLists : OneCommandPerKind(p[1], p[2])

\* C4 witness: a completed run with two candidates whose rules give the same
\* action kind (both known-issue categories give Update Jira Ticket).
C4_Witness ==
    \E i \in 1..Len(db) :
        LET list == dict_get(StoredRun(i).analysis, "classifications")
        IN  /\ Completed(StoredRun(i))
            /\ \E a, b \in 1..Len(list) :
                  /\ list[a].classification_type = "known-bug-oadp-2345"
                  /\ list[b].classification_type = "known-automation-issue-oadp-2345"

\* the phrases of the pattern table whose category is in the skip family
SkipPhrases == {"Test skipped due to unstable environment", "Skipping test, feature flag is disabled"}

HasSkipPhrase(logs) == \E p \in SkipPhrases : Contains(LowerOf(p), Lower(logs))

DoNothingOnSkipPhrase(run, list) ==
    HasSkipPhrase(run.logs)
        => /\ Len(list) = 1
           /\ list[1].action_type = "Do Nothing"

\* C5: a run whose log contains a skip phrase, in any letter case and whatever
\* else the log triggers, gets exactly one command, Do Nothing.
C5_SkipDoesNothing == \A p \in ShownActionLists : DoNothingOnSkipPhrase(p[1], p[2])

\* C5 witness: a completed run whose log holds a skip phrase and for which
\* the strategies also yield a candidate that has a rule of its own.
C5_Witness ==
    \E i \in 1..Len(db) :
        LET all == StrategyCandidates(StoredRun(i))
        IN  /\ Completed(StoredRun(i))
            /\ HasSkipPhrase(StoredRun(i).logs)
            /\ \E a \in 1..Len(all) : all[a].classification_type = "Known Flake"

\* C6: a call of get_test_result or of classify from outside leaves the store
\* as it is and raises nothing; for an id the store does not hold,
\* get_test_result returns None and classify returns the empty list.
C6_UnknownIdLookup ==
    [][ (pc = "idle" /\ pc' = "idle")
          => /\ db' = db
             /\ raised' = FALSE
             /\ (ret'.op = "get_test_result" /\ ~ dict_has(db, ret'.id))
                    => ret'.run = [none |-> TRUE]
             /\ (ret'.op = "classify" /\ ~ dict_has(db, ret'.id))
                    => ret'.list = <<>> ]_vars

\* C6 witness: classify has returned for an id that the store, which holds a
\* completed run, does not hold.
C6_Witness ==
    /\ pc = "idle"
    /\ ret.op = "classify"
    /\ ~ dict_has(db, ret.id)
    /\ \E i \in 1..Len(db) : Completed(StoredRun(i))

\* C7: for a log in which the marker STEP: does not occur, the step sequence
\* is empty and the failed step is the sentinel.
C7_NoMarkerNoSteps ==
    (pc = "parsed" /\ \A i \in 1..Len(cur.logs) : cur.logs[i] # "STEP:")
        => /\ cur.steps = <<>>
           /\ cur.failed_step = <<"Log analysis did not find a failed step">>

\* C7 witness: the extractor has run on a log of several lines without a
\* marker, one line holding a failure keyword.
C7_Witness ==
    /\ pc = "parsed"
    /\ \A i \in 1..Len(cur.logs) : cur.logs[i] # "STEP:"
    /\ \E i, j, k \in 1..Len(cur.logs) :
          /\ cur.logs[i] = "Verify backup integrity"
          /\ cur.logs[j] = "\n"
          /\ cur.logs[k] = "ERROR"

HasIgnoredPhrase(text) ==
    \E p \in {"setting up environment", "cleaning up resources", "starting test"} :
        Contains(p, Lower(text))

\* C8: no step whose lowercased text holds a phrase of the ignore list is in
\* the step sequence, and none is the failed step.
C8_IgnoredStepsDropped ==
    pc = "parsed"
        => /\ \A i \in 1..Len(cur.steps) : ~ HasIgnoredPhrase(cur.steps[i])
           /\ ~ HasIgnoredPhrase(cur.failed_step)

\* C8 witness: the extractor has run on a log whose first line is a step with
\* an ignored phrase, in mixed case, and whose next line holds a failure keyword.
C8_Witness ==
    /\ pc = "parsed"
    /\ cur.logs = <<"STEP:", " ", "Setting up environment", "\n", "ERROR">>

\* C9: no request raises, and every run that process_test_result and the
\* executor loop have been through is stored with its classifications, its
\* actions and its action results.
C9_SubmitNeverFails ==
    /\ raised = FALSE
    /\ pc \in {"loop", "idle"} => \A i \in 1..Len(db) : Completed(StoredRun(i))

\* C9 witness: a run with an empty log has been through the pipeline.
C9_Witness ==
    /\ pc = "loop"
    /\ \E i \in 1..Len(db) : StoredRun(i).logs = <<>> /\ Completed(StoredRun(i))

AtLeastOneCandidate(run, list) == Len(list) >= 1

\* C10: classify returns at least one candidate for a stored run, so the
\* classification list stored for a run is never empty.
C10_ClassifyNeverEmpty == \A p \in ShownClassifications : AtLeastOneCandidate(p[1], p[2])

\* C10 witness: classify, called from outside, has returned for a stored run
\* for which no strategy yields a candidate.
C10_Witness ==
    /\ ret.op = "classify"
    /\ dict_has(db, ret.id)
    /\ StrategyCandidates(dict_get(db, ret.id)) = <<>>

SameRunFields(r1, r2) ==
    /\ r1.logs = r2.logs
    /\ r1.test_name = r2.test_name
    /\ r1.failed_step = r2.failed_step

\* C11: any two classification lists that classify produced for stored runs
\* with equal log text, test name and failed step are equal, element by element
\* and in order, whatever the run ids, the other stored runs and the calls
\* made before.
C11_ClassifyDeterministic ==
    \A p, q \in ShownClassifications : SameRunFields(p[1], q[1]) => p[2] = q[2]

\* C11 witness: two completed runs with different ids and the same fields, for
\* which two strategies yield candidates, and classify called again from
\* outside for the first of them.
C11_Witness ==
    /\ Len(db) = 2
    /\ Completed(StoredRun(1)) /\ Completed(StoredRun(2))
    /\ StoredRun(1).test_run_id # StoredRun(2).test_run_id
    /\ SameRunFields(StoredRun(1), StoredRun(2))
    /\ Len(StrategyCandidates(StoredRun(1))) >= 2
    /\ ret.op = "classify" /\ ret.id = StoredRun(1).test_run_id

AnalysisKeys == {"classifications", "actions", "action_results"}

\* C12: a call of update_analysis leaves every run but its target as it was,
\* keeps the target's id, name, log, steps and failed step, keeps every
\* analysis key the data does not supply at its value, and sets the supplied
\* keys to the data's values.
C12_MergeChangesOnlySuppliedKeys ==
    [][ ret'.op = "update_analysis"
          => /\ Len(db') = Len(db)
             /\ \A i \in 1..Len(db) :
                   /\ db'[i][1] = db[i][1]
                   /\ db[i][1] # ret'.id => db'[i] = db[i]
                   /\ db[i][1] = ret'.id =>
                        /\ [db'[i][2] EXCEPT !.analysis = <<>>] = [db[i][2] EXCEPT !.analysis = <<>>]
                        /\ \A k \in AnalysisKeys :
                              IF dict_has(ret'.data, k)
                              THEN /\ dict_has(db'[i][2].analysis, k)
                                   /\ dict_get(db'[i][2].analysis, k) = dict_get(ret'.data, k)
                              ELSE /\ dict_has(db'[i][2].analysis, k) = dict_has(db[i][2].analysis, k)
                                   /\ dict_has(db[i][2].analysis, k) =>
                                         dict_get(db'[i][2].analysis, k) = dict_get(db[i][2].analysis, k) ]_vars

\* C12 witness: classifications and actions have just been merged into a run
\* that held action results before (they come first in its analysis), while
\* the store holds a second run.
C12_Witness ==
    /\ ret.op = "update_analysis"
    /\ dict_has(ret.data, "classifications")
    /\ Len(db) = 2
    /\ dict_has(db, ret.id)
    /\ LET analysis == dict_get(db, ret.id).analysis
       IN  /\ Len(analysis) = 3
           /\ analysis[1][1] = "action_results"

\* the action kinds execute_action has a branch for
TemplatedKinds == {"Create Jira Ticket", "Update Jira Ticket", "Run Custom Script"}

ResultOf(command, result) ==
    /\ dict_has(result, "action_type")
    /\ dict_get(result, "action_type") = command.action_type
    /\ dict_has(result, "status")
    /\ dict_get(result, "status") \in {"SUCCESS", "INFO"}
    /\ command.action_type \notin TemplatedKinds
          => /\ dict_get(result, "status") = "INFO"
             /\ dict_has(result, "message")
             /\ dict_get(result, "message") = <<"Action '", command.action_type, "' recorded.">>

\* C13: the executor's results follow the commands one for one and in order:
\* while the loop runs, the results are those of the first commands; the
\* stored result list has the length of the action list; each result carries
\* its command's kind and a status that is SUCCESS or INFO, and a kind without
\* a branch gets the INFO result "Action '<kind>' recorded.".
C13_OneResultPerCommand ==
    /\ pc = "execute"
          => /\ Len(action_results) <= Len(action_commands)
             /\ \A i \in 1..Len(action_results) : ResultOf(action_commands[i], action_results[i])
    /\ \A p \in ShownActionLists :
          dict_has(p[1].analysis, "action_results")
              => LET results == dict_get(p[1].analysis, "action_results")
                 IN  /\ Len(results) = Len(p[2])
                     /\ \A i \in 1..Len(results) : ResultOf(p[2][i], results[i])

\* C13 witness: a completed run with several commands, one of a kind with a
\* branch of its own and one of a kind without.
C13_Witness ==
    \E i \in 1..Len(db) :
        /\ Completed(StoredRun(i))
        /\ LET actions == dict_get(StoredRun(i).analysis, "actions")
           IN  /\ Len(actions) >= 3
               /\ \E a, b \in 1..Len(actions) :
                     /\ actions[a].action_type \in TemplatedKinds
                     /\ actions[b].action_type \notin TemplatedKinds

\* C14: a stored run that has not been through all stages is the run in hand,
\* saved last: when the steps of a run are extracted and the run is saved,
\* every run saved before it holds its action results.
C14_OneRunAtATime ==
    \A i \in 1..Len(db) :
        ~ Completed(StoredRun(i))
            => /\ pc \in {"classify", "rules", "execute"}
               /\ i = Len(db)
               /\ cur.test_run_id = StoredRun(i).test_run_id

\* C14 witness: the second run of a batch has just been extracted and saved,
\* and the first, which had several commands executed, is complete.
C14_Witness ==
    /\ pc = "classify"
    /\ Len(db) = 2
    /\ Completed(StoredRun(1))
    /\ Len(dict_get(StoredRun(1).analysis, "action_results")) >= 2
    /\ ~ Completed(StoredRun(2))

\* C15: no step other than the reset that starts a batch changes a stored run
\* that has been through all stages: the run keeps its place in the store and
\* every field of its record, analysis included.
C15_CompletedRunReadOnly ==
    [][ ~ (pc = "idle" /\ pc' = "loop")
          => \A i \in 1..Len(db) :
                Completed(StoredRun(i)) => (i <= Len(db') /\ db'[i] = db[i]) ]_vars

\* C15 witness: the detail page of the first of two completed runs has been
\* rendered, the second run having been processed after the first was complete.
C15_Witness ==
    /\ pc = "idle"
    /\ Len(db) = 2
    /\ Completed(StoredRun(1)) /\ Completed(StoredRun(2))
    /\ ret.op = "log_view"
    /\ ret.id = StoredRun(1).test_run_id
    /\ ~ ret.http404

\* the action kinds of a list of commands
KindsOf(list) == {list[i].action_type : i \in 1..Len(list)}

\* C16: for every action list made from a classification list that is not a
\* skip result, each New Product Bug candidate brings a Create Jira Ticket and a
\* Notify Slack command, and each Infrastructure Error candidate brings a Run
\* Custom Script and a Mark for Manual Review command.
C16_MultiActionCategories ==
    \A p \in ShownActionLists :
        LET cls == dict_get(p[1].analysis, "classifications")
        IN  (cls # <<>> /\ cls[1].classification_type \notin {"skip", "new-skip"})
                => \A i \in 1..Len(cls) :
                      /\ cls[i].classification_type = "New Product Bug"
                            => {"Create Jira Ticket", "Notify Slack"} \subseteq KindsOf(p[2])
                      /\ cls[i].classification_type = "Infrastructure Error"
                            => {"Run Custom Script", "Mark for Manual Review"} \subseteq KindsOf(p[2])

\* a line that holds a failure keyword in some letter case
IsFailureLine(line) == ContainsAny({"fail", "panic", "error", "fatal"}, Lower(line))

IntegrityStepLine == <<"STEP:", " ", "Verify backup integrity">>

NotifiesStorageTeam(list) ==
    \E i \in 1..Len(list) :
        /\ list[i].action_type = "Notify Slack"
        /\ dict_get(list[i].payload, "channel") = "#storage-team"

HasIntegrityCandidate(list) ==
    \E i \in 1..Len(list) :
        /\ list[i].classifier_id = "STEP_BACKUP_INTEGRITY"
        /\ list[i].classification_type = "Backup Integrity Failure"

OtherPhrases == {
    "database migration setup", "mysql validation failed", "mysql cleanup failed",
    "ocp-mysql deploy failed", "backup completed with warnings", "backup successful",
    "test skipped due to unstable environment", "skipping test, feature flag is disabled",
    "error restoring snapshot oadp-2345", "automation framework panicked",
    "nullpointerexception", "permission denied" }

\* the run triggers the timeout pattern and nothing else
OnlyTimeout(run) ==
    /\ Contains("connection timed out", Lower(run.logs))
    /\ ~ ContainsAny(OtherPhrases, Lower(run.logs))
    /\ ansible_group(run.logs) = <<>>
    /\ ~ (/\ Contains("test_mysql_backup", run.test_name)
          /\ Contains("Verify backup integrity", run.failed_step))

\* C18: a run whose log holds the timeout phrase, in any letter case, and
\* triggers nothing else is classified as exactly one candidate, Known Flake at
\* confidence 0.99, and its action list is exactly one Mark for Rerun command.
C18_ScenarioA ==
    \A p \in ShownActionLists :
        OnlyTimeout(p[1])
            => LET cls == dict_get(p[1].analysis, "classifications")
               IN  /\ Len(cls) = 1
                   /\ cls[1].classification_type = "Known Flake"
                   /\ cls[1].confidence = 99
                   /\ Len(p[2]) = 1
                   /\ p[2][1].action_type = "Mark for Rerun"

\* C18 witness: a completed run of two lines, the timeout phrase in upper case
\* and a line that triggers nothing.
C18_Witness ==
    \E i \in 1..Len(db) :
        /\ Completed(StoredRun(i))
        /\ OnlyTimeout(StoredRun(i))
        /\ StoredRun(i).logs = <<"CONNECTION TIMED OUT", "\n", "FAIL">>

\* the number of the first line that holds a failure keyword in some letter
\* case, or of the last line when there is none
FirstFailureLine(lines) ==
    IF \E n \in 1..Len(lines) : IsFailureLine(lines[n])
    THEN CHOOSE n \in 1..Len(lines) :
             IsFailureLine(lines[n]) /\ \A m \in 1..(n-1) : ~ IsFailureLine(lines[m])
    ELSE Len(lines)

\* a line that starts with the step marker and whose step text is not ignored
IsCandidateLine(line) ==
    /\ line # <<>>
    /\ line[1] = "STEP:"
    /\ ~ HasIgnoredPhrase(strip(replace_step(line)))

\* C19: the failed step is the sentinel for every log in which no line holds a
\* failure keyword, and for every log in which no candidate step line comes up
\* to and including the first line with a failure keyword.
C19_SentinelWithoutFailure ==
    pc = "parsed"
        => LET lines == split_lines(cur.logs)
           IN  /\ (\A n \in 1..Len(lines) : ~ IsFailureLine(lines[n]))
                      => cur.failed_step = <<"Log analysis did not find a failed step">>
               /\ (\A n \in 1..FirstFailureLine(lines) : ~ IsCandidateLine(lines[n]))
                      => cur.failed_step = <<"Log analysis did not find a failed step">>

\* the failed step when the scan goes through the lines 1..k and no further:
\* the step text of the last candidate line among them, or the sentinel
FailedStepUpTo(lines, k) ==
    LET S == {n \in 1..k : IsCandidateLine(lines[n])}
    IN  IF S = {} THEN <<"Log analysis did not find a failed step">>
        ELSE strip(replace_step(lines[CHOOSE n \in S : \A m \in S : m <= n]))

\* C20: when some line holds a failure keyword (FAIL, panic, error or fatal, in
\* any letter case), the scan stops at the first such line: the failed step is
\* the one found in the lines up to and including it, and no step line after
\* it counts.
C20_FirstFailureLineStopsScan ==
    pc = "parsed"
        => LET lines == split_lines(cur.logs)
           IN  (\E n \in 1..Len(lines) : IsFailureLine(lines[n]))
                   => cur.failed_step = FailedStepUpTo(lines, FirstFailureLine(lines))

\* C21: when the first line that holds a failure keyword (FAIL, panic, error or
\* fatal, in any letter case) is itself a step line that is not ignored, the
\* candidate is set from that line before the scan stops: the failed step is
\* that line's own step text, not the candidate of an earlier line nor the
\* step of a later one.
C21_StepLineWithFailureKeyword ==
    pc = "parsed"
        => LET lines == split_lines(cur.logs)
               n == FirstFailureLine(lines)
           IN  (IsFailureLine(lines[n]) /\ IsCandidateLine(lines[n]))
                   => cur.failed_step = strip(replace_step(lines[n]))

\* the commands that the candidates of a classification list produce through
\* the category-to-action table, in list order
ProducedCommands(run, cls) ==
    LET A[n \in 0..Len(cls)] ==
            IF n = 0 THEN <<>> ELSE A[n-1] \o rule_commands(run, cls[n])
    IN  A[Len(cls)]

LastWriteWins(produced, list) ==
    LET FirstPos(kind) == CHOOSE i \in 1..Len(produced) :
                              /\ produced[i].action_type = kind
                              /\ \A j \in 1..(i-1) : produced[j].action_type # kind
        LastPos(kind) == CHOOSE i \in 1..Len(produced) :
                             /\ produced[i].action_type = kind
                             /\ \A j \in (i+1)..Len(produced) : produced[j].action_type # kind
    IN  /\ KindsOf(list) = KindsOf(produced)
        /\ \A i \in 1..Len(list) : list[i] = produced[LastPos(list[i].action_type)]
        /\ \A i, j \in 1..Len(list) :
              i < j => FirstPos(list[i].action_type) < FirstPos(list[j].action_type)

\* C22: for a classification list that is not a skip result and whose
\* candidates produce commands, the action list holds each produced kind once,
\* with the payload of the last command of that kind in list order (a candidate
\* of lower confidence overrides one of higher confidence), and the kinds stand
\* in the order in which each was first produced.
C22_LastWriteWinsPerKind ==
    \A p \in ShownActionLists :
        LET cls == dict_get(p[1].analysis, "classifications")
            produced == ProducedCommands(p[1], cls)
        IN  (cls # <<>> /\ cls[1].classification_type \notin {"skip", "new-skip"}
                /\ produced # <<>>)
                => LastWriteWins(produced, p[2])

\* C22 witness: a completed run whose list holds the Backup Integrity Failure
\* candidate (1.0) before the Ansible Deploy Failure candidate (0.98); both
\* produce Notify Slack and the command kept is the Ansible one.
C22_Witness ==
    \E i \in 1..Len(db) :
        /\ Completed(StoredRun(i))
        /\ LET cls == dict_get(StoredRun(i).analysis, "classifications")
               actions == dict_get(StoredRun(i).analysis, "actions")
           IN  /\ Len(cls) = 2
               /\ cls[1].classification_type = "Backup Integrity Failure"
               /\ cls[2].classification_type = "Ansible Deploy Failure"
               /\ cls[1].confidence > cls[2].confidence
               /\ Len(actions) = 1
               /\ dict_get(actions[1].payload, "channel") = "#devops-ansible"

\* the categories that have an entry in the category-to-action table
RuleCategories == {
    "New Product Bug", "known-bug-oadp-2345", "known-automation-issue-oadp-2345",
    "Backup Integrity Failure", "Ansible Deploy Failure", "Known Flake",
    "Infrastructure Error" }

NoRuleMatched(cls) == \A i \in 1..Len(cls) : cls[i].classification_type \notin RuleCategories

IsDefaultReview(command) ==
    /\ command.action_type = "Mark for Manual Review"
    /\ command.payload = <<<<"reason", "No specific rule matched">>>>

\* C23: for a classification list that is not a skip result, the action list
\* is not empty; it holds the default Mark for Manual Review command (reason
\* 'No specific rule matched') if and only if no candidate's category has an
\* entry in the category-to-action table, and then it holds nothing else.
C23_DefaultManualReview ==
    \A p \in ShownActionLists :
        LET cls == dict_get(p[1].analysis, "classifications")
        IN  (cls # <<>> /\ cls[1].classification_type \notin {"skip", "new-skip"})
                => /\ p[2] # <<>>
                   /\ (\E i \in 1..Len(p[2]) : IsDefaultReview(p[2][i])) <=> NoRuleMatched(cls)
                   /\ NoRuleMatched(cls) => Len(p[2]) = 1

\* C23 witness: a completed run with two candidates, neither of a category
\* with an entry in the table, whose action list is the default command.
C23_Witness ==
    \E i \in 1..Len(db) :
        /\ Completed(StoredRun(i))
        /\ LET cls == dict_get(StoredRun(i).analysis, "classifications")
               actions == dict_get(StoredRun(i).analysis, "actions")
           IN  /\ Len(cls) = 2
               /\ cls[1].classification_type = "backup-successful"
               /\ cls[2].classification_type = "Setup Failure"
               /\ Len(actions) = 1
               /\ IsDefaultReview(actions[1])

\* the classifier ids of the entries of the pattern strategy
PatternEntryIds ==
    {patterns[i].result.classifier_id : i \in 1..Len(patterns)} \cup {"REGEX_ANSIBLE_FAILURE"}

\* the entries of the pattern strategy among the candidates of a list
PatternIdsIn(list) ==
    {list[i].classifier_id : i \in 1..Len(list)} \cap PatternEntryIds

\* C24: the pattern entries that fire for a log are those that fire for the
\* same log written in lower case, for every entry of the pattern strategy,
\* the entry that extracts the failed deployment role included: the letter
\* case of the log does not change which entries fire.
C24_PatternsIgnoreCase ==
    \A p \in ShownClassifications :
        (p[2] # <<>> /\ p[2][1].classification_type \notin {"skip", "new-skip"})
            => PatternIdsIn(p[2]) = PatternIdsIn(_regex_classifier(Lower(p[1].logs)))

StableAmongEquals(run, list) ==
    LET all == StrategyCandidates(run)
        Place(id) == CHOOSE k \in 1..Len(all) :
                         /\ all[k].classifier_id = id
                         /\ \A j \in 1..(k-1) : all[j].classifier_id # id
    IN  (list # <<>> /\ list[1].classification_type \notin {"skip", "new-skip"})
            => \A i, j \in 1..Len(list) :
                  (i < j /\ list[i].confidence = list[j].confidence)
                      => Place(list[i].classifier_id) < Place(list[j].classifier_id)

\* C25: in a classification list that is not a skip result, two candidates of
\* equal confidence stand in the order they have in the concatenation of the
\* pattern (table order), keyword and structural candidates.
C25_SortIsStable == \A p \in ShownClassifications : StableAmongEquals(p[1], p[2])

\* C25 witness: a completed run with three candidates, the two mysql patterns
\* at 0.96 and the permission keyword at 0.88, whose log names the cleanup
\* failure before the validation failure while the table has them the other
\* way round.
C25_Witness ==
    \E i \in 1..Len(db) :
        /\ Completed(StoredRun(i))
        /\ split_lines(StoredRun(i).logs)[1] = <<"mysql cleanup failed">>
        /\ LET cls == dict_get(StoredRun(i).analysis, "classifications")
           IN  /\ Len(cls) = 3
               /\ cls[1].classifier_id = "REGEX_MYSQL_VALIDATE"
               /\ cls[2].classifier_id = "REGEX_MYSQL_CLEANUP"
               /\ cls[1].confidence = cls[2].confidence
               /\ cls[3].confidence < cls[2].confidence

\* the ids of the stored runs, in store order
StoredIds == [i \in 1..Len(db) |-> db[i][1]]

\* the ids drawn for runs of earlier batches
EarlierIds == issued \ {tests[i] : i \in 1..Len(tests)}

\* C26: when a batch has completed, the store holds the runs that batch
\* submitted and no other, the list the batch returns is the list of those
\* runs, and a fetch of the id of a run of an earlier batch finds nothing:
\* get_test_result returns None and the detail page answers not-found.
C26_StoreHoldsLastBatchOnly ==
    pc = "idle"
        => /\ StoredIds = tests
           /\ ret.op = "get_all_results"
                 => [i \in 1..Len(ret.list) |-> ret.list[i].test_run_id] = tests
           /\ (ret.op = "get_test_result" /\ ret.id \in EarlierIds)
                 => ret.run = [none |-> TRUE]
           /\ (ret.op = "log_view" /\ ret.id \in EarlierIds) => ret.http404

\* C26 witness: after a second batch has completed and stored a run, the
\* detail page of the run of the first batch has been asked for.
C26_Witness ==
    /\ pc = "idle"
    /\ Len(db) = 1
    /\ Completed(StoredRun(1))
    /\ Cardinality(issued) = 2
    /\ ret.op = "log_view"
    /\ ret.id \in EarlierIds

\* C27: whenever the failed step is not the sentinel, it is one of the steps
\* of the step sequence of the same call.
C27_FailedStepIsAStep ==
    (pc = "parsed" /\ cur.failed_step # <<"Log analysis did not find a failed step">>)
        => \E i \in 1..Len(cur.steps) : cur.steps[i] = cur.failed_step

\* C28: an action list that holds a Do Nothing command holds nothing else, and
\* the classification list of its run is a single candidate of the skip
\* family; so a run whose classification list has no skip candidate gets no
\* Do Nothing command.
C28_DoNothingOnlyForSkip ==
    \A p \in ShownActionLists :
        LET cls == dict_get(p[1].analysis, "classifications")
        IN  (\E i \in 1..Len(p[2]) : p[2][i].action_type = "Do Nothing")
                => /\ Len(p[2]) = 1
                   /\ Len(cls) = 1
                   /\ cls[1].classification_type \in {"skip", "new-skip"}

\* C28 witness: a completed run whose action list is Do Nothing and whose log
\* holds, beside the feature-flag skip phrase, the exception name that the
\* keyword strategy answers with a product-bug candidate.
C28_Witness ==
    \E i \in 1..Len(db) :
        /\ Completed(StoredRun(i))
        /\ dict_get(StoredRun(i).analysis, "actions")[1].action_type = "Do Nothing"
        /\ dict_get(StoredRun(i).analysis, "classifications")[1].classifier_id = "REGEX_SKIP_FLAG"
        /\ _llm_classifier(StoredRun(i).logs) # <<>>

\* the data that process_test_result derives for a run
DerivedData(run) ==
    [steps |-> run.steps, failed_step |-> run.failed_step,
     classifications |-> dict_get(run.analysis, "classifications"),
     actions |-> dict_get(run.analysis, "actions")]

\* C29: when a run that the store holds is submitted once more, as the same
\* record or as a record of the same id, name and log, the store keeps its
\* records' ids and places, so it still holds one record for that id; that
\* record's step list, failed step, classification list and action list are
\* what they were after the first submission, and the other records are
\* untouched.
C29_ResubmitIsIdempotent ==
    [][ ret'.op = "process_test_result"
          => /\ [i \in 1..Len(db') |-> db'[i][1]] = [i \in 1..Len(db) |-> db[i][1]]
             /\ Cardinality({i \in 1..Len(db') : db'[i][1] = ret'.id}) = 1
             /\ \A i \in 1..Len(db) :
                   IF db[i][1] = ret'.id
                   THEN DerivedData(db'[i][2]) = DerivedData(db[i][2])
                   ELSE db'[i] = db[i] ]_vars

\* C29 witness: in a store of two runs, a run with several candidates has been
\* submitted once more as a new record: its analysis holds the classifications
\* and the actions again, and no action results any more.
C29_Witness ==
    /\ ret.op = "process_test_result"
    /\ Len(db) = 2
    /\ LET run == dict_get(db, ret.id)
       IN  /\ ~ dict_has(run.analysis, "action_results")
           /\ Len(dict_get(run.analysis, "classifications")) >= 2
           /\ Len(ret.list) >= 2

\* C30: with two batches running at once on the shared store, the list a
\* batch returns holds the runs that batch submitted and no other, each with
\* its classifications, actions and action results, and the reset that starts
\* a batch removes no record of the other batch while that batch is running.
C30_ConcurrentBatchesIsolated ==
    [][ /\ (pc = "loop" /\ pc' = "idle" /\ tests' = tests /\ ret'.op = "get_all_results")
            => /\ [i \in 1..Len(ret'.list) |-> ret'.list[i].test_run_id] = tests
               /\ \A i \in 1..Len(ret'.list) : Completed(ret'.list[i])
        /\ (pc = "idle" /\ pc' = "loop" /\ tests' = <<>> /\ parked.pc # "idle")
            => \A i \in 1..Len(parked.tests) :
                  dict_has(db, parked.tests[i]) => dict_has(db', parked.tests[i]) ]_vars

====
